---- MODULE Spec2Model ----
(***************************************************************************)
(* Model of the csv viewer of src/src/main.rs: the Cell / Row / Table data *)
(* model, the load performed by Table::from_filepath, the width            *)
(* computation, the TableViewItem adapter of Row and the control flow of   *)
(* main.                                                                   *)
(*                                                                         *)
(* A text (Rust String / &str) is a sequence of one-character strings.     *)
(* Vec<T> is a sequence; the zero-based index c of the code is the         *)
(* position c + 1 of the sequence.                                         *)
(***************************************************************************)
EXTENDS Integers, Sequences, FiniteSets, TLC

\* ------------------------------------------------------------------------
\* Bounds of the model
\* ------------------------------------------------------------------------

\* largest number of data rows a file holds
MaxRows == 2

\* longest line handed to Row::from_line on its own (specification SpecLine)
MaxLineLen == 4

\* largest min_cell_width / padding asked of col_width2 in the claims
MaxPad == 3

\* ------------------------------------------------------------------------
\* Texts
\* ------------------------------------------------------------------------

\* the characters of a raw line, line ending included (read_line keeps it)
LineAlphabet == {"a", ",", " ", "\n"}

\* the characters str::trim removes, among the characters of the model
WhiteSpace == {" ", "\n"}

Strings(A, n) == UNION {[1..k -> A] : k \in 0..n}

\* the header line "a,b" of the scenario with a short data row
ScenarioAHeader == <<"a", ",", "b">>

\* the header line "x,,z" of the scenario with an empty header field
ScenarioBHeader == <<"x", ",", ",", "z">>

\* the first lines of the files read: those of the scenarios, the empty
\* header line, a one-column header, a header with an empty first field and
\* white space around the second
HeaderLines ==
    {ScenarioAHeader, ScenarioBHeader, <<>>, <<"a">>, <<" ", ",", "a", " ">>}

\* the lines after the first (lines() has removed the line ending): the data
\* lines "1,2" and "3" of the scenarios, the blank line, a line of white
\* space, a line of empty fields, a two-character cell, an empty first field
DataLines ==
    {<<"1", ",", "2">>, <<"3">>, <<>>, <<" ">>, <<",", ",">>, <<"a", "a">>,
     <<",", "a">>}

\* byte value of a character (String::cmp compares bytes)
Code(ch) ==
    CASE ch = "\n" -> 10 [] ch = " " -> 32 [] ch = "," -> 44 [] ch = "-" -> 45
      [] ch = "0" -> 48 [] ch = "1" -> 49 [] ch = "2" -> 50 [] ch = "3" -> 51
      [] ch = "4" -> 52 [] ch = "5" -> 53 [] ch = "6" -> 54 [] ch = "7" -> 55
      [] ch = "8" -> 56 [] ch = "9" -> 57 [] ch = ":" -> 58 [] ch = "<" -> 60
      [] ch = ">" -> 62 [] ch = "L" -> 76 [] ch = "N" -> 78 [] ch = "U" -> 85
      [] ch = "a" -> 97 [] ch = "b" -> 98 [] ch = "c" -> 99 [] ch = "l" -> 108 [] ch = "o" -> 111
      [] ch = "x" -> 120 [] ch = "z" -> 122

Digit(d) == SubSeq(<<"0", "1", "2", "3", "4", "5", "6", "7", "8", "9">>, d + 1, d + 1)

RECURSIVE NatToText(_)
NatToText(n) == IF n < 10 THEN Digit(n) ELSE NatToText(n \div 10) \o Digit(n % 10)

\* format!("{}", i) of an integer
IntToText(i) == IF i < 0 THEN <<"-">> \o NatToText(0 - i) ELSE NatToText(i)

\* format!("col:{}", c)
ColName(c) == <<"c", "o", "l", ":">> \o NatToText(c)

\* the placeholder "<NULL>"
NullText == <<"<", "N", "U", "L", "L", ">">>

\* the title "rowid"
RowidTitle == <<"r", "o", "w", "i", "d">>

RECURSIVE TrimStart(_)
TrimStart(s) ==
    IF s # <<>> /\ Head(s) \in WhiteSpace THEN TrimStart(Tail(s)) ELSE s

RECURSIVE TrimEnd(_)
TrimEnd(s) ==
    IF s # <<>> /\ s[Len(s)] \in WhiteSpace
    THEN TrimEnd(SubSeq(s, 1, Len(s) - 1))
    ELSE s

\* str::trim
Trim(s) == TrimEnd(TrimStart(s))

\* str::split(','): the fields of s, scanned left to right; cur is the field
\* being collected
RECURSIVE SplitFrom(_, _)
SplitFrom(s, cur) ==
    IF s = <<>> THEN <<cur>>
    ELSE IF Head(s) = "," THEN <<cur>> \o SplitFrom(Tail(s), <<>>)
    ELSE SplitFrom(Tail(s), Append(cur, Head(s)))

Split(s) == SplitFrom(s, <<>>)

\* Ord::cmp of two texts: lexicographic on the bytes
RECURSIVE TextCmp(_, _)
TextCmp(a, b) ==
    IF a = <<>> /\ b = <<>> THEN "Equal"
    ELSE IF a = <<>> THEN "Less"
    ELSE IF b = <<>> THEN "Greater"
    ELSE IF Code(Head(a)) < Code(Head(b)) THEN "Less"
    ELSE IF Code(Head(a)) > Code(Head(b)) THEN "Greater"
    ELSE TextCmp(Tail(a), Tail(b))

\* Ord::cmp of two i64
IntCmp(a, b) == IF a < b THEN "Less" ELSE IF a > b THEN "Greater" ELSE "Equal"

Max(a, b) == IF a >= b THEN a ELSE b

RECURSIVE SeqMax(_)
\* Iterator::max of a sequence of numbers, 0 when it is empty (unwrap_or(0))
SeqMax(s) == IF s = <<>> THEN 0 ELSE Max(Head(s), SeqMax(Tail(s)))

RECURSIVE SeqSum(_)
SeqSum(s) == IF s = <<>> THEN 0 ELSE Head(s) + SeqSum(Tail(s))

\* ------------------------------------------------------------------------
\* Cell
\* ------------------------------------------------------------------------

\* a plausible slip of Cell::from_string: the field is stored untrimmed
Cell_from_string_untrimmed(s) == [value |-> s]

Cell_from_string(s) == [value |-> Trim(s)]

Cell_len(cell) == Len(cell.value)

Cell_set_value(cell, s) == [cell EXCEPT !.value = s]

\* ------------------------------------------------------------------------
\* Row
\* ------------------------------------------------------------------------

Row_num_cols(row) == Len(row.cells)

Row_rowid_str(row) == IntToText(row.rowid)

Row_cell_width(row, c) ==
    IF c < Len(row.cells) THEN Len(row.cells[c + 1].value) ELSE 0

Row_try_get(row, c, missing) ==
    IF c < Len(row.cells) THEN row.cells[c + 1].value ELSE missing

Row_from_line(s) ==
    LET terms == Split(s)
    IN  [cells |-> [i \in 1..Len(terms) |-> Cell_from_string(terms[i])],
         rowid |-> -1]

\* ------------------------------------------------------------------------
\* Table
\* ------------------------------------------------------------------------

\* the Table built at lines 183-187, before any line is added
Table_new(headerline) ==
    [header |-> Row_from_line(headerline), rows |-> <<>>, num_cols |-> 0]

\* a plausible slip of add_line: ids counted from 1
Table_add_line_from_one(t, row) ==
    [t EXCEPT !.num_cols = Max(t.num_cols, Row_num_cols(row)),
              !.rows = Append(t.rows, [row EXCEPT !.rowid = Len(t.rows) + 1])]

Table_add_line(t, row) ==
    [t EXCEPT !.num_cols = Max(t.num_cols, Row_num_cols(row)),
              !.rows = Append(t.rows, [row EXCEPT !.rowid = Len(t.rows)])]

\* the two loops of fix_header_names; the assert_eq! is Table_header_assert
Table_fix_header_names(t) ==
    LET n == Row_num_cols(t.header)
        renamed == [i \in 1..n |->
                      IF Cell_len(t.header.cells[i]) = 0
                      THEN Cell_set_value(t.header.cells[i], ColName(i - 1))
                      ELSE t.header.cells[i]]
        added == IF t.num_cols > n
                 THEN [i \in 1..(t.num_cols - n) |->
                         Cell_from_string(ColName(n + i - 1))]
                 ELSE <<>>
    IN  [t EXCEPT !.header.cells = renamed \o added]

\* the assert_eq! that ends fix_header_names
Table_header_assert(t) == Row_num_cols(t.header) = t.num_cols

Table_header_names(t) == [i \in 1..Len(t.header.cells) |-> t.header.cells[i].value]

Table_rowid_width(t) ==
    IF t.rows = <<>> THEN 0 ELSE Len(Row_rowid_str(t.rows[Len(t.rows)]))

Table_col_width(t, c) ==
    SeqMax([i \in 1..Len(t.rows) |-> Row_cell_width(t.rows[i], c)])

\* self.header.cells[c] is in bounds
Table_col_width2_in_bounds(t, c) == c < Len(t.header.cells)

\* a plausible slip of col_width2: the smaller of the two widths
Table_col_width2_min(t, c, cell_minwidth, cell_padding, header_padding) ==
    LET w == Max(Table_col_width(t, c), cell_minwidth) + cell_padding
        w2 == Cell_len(t.header.cells[c + 1]) + header_padding
    IN  IF w <= w2 THEN w ELSE w2

Table_col_width2(t, c, cell_minwidth, cell_padding, header_padding) ==
    LET w == Max(Table_col_width(t, c), cell_minwidth) + cell_padding
        w2 == Cell_len(t.header.cells[c + 1]) + header_padding
    IN  Max(w, w2)

Table_sum_colwidth2(t, min_cellwidth, cell_padding, header_padding) ==
    SeqSum([i \in 1..t.num_cols |->
              Table_col_width2(t, i - 1, min_cellwidth, cell_padding, header_padding)])

\* ------------------------------------------------------------------------
\* BasicColumn and the TableViewItem adapter of Row
\* ------------------------------------------------------------------------

RowId == <<"RowId">>

ColumnPos(c) == <<"ColumnPos", c>>

to_column(row, column) ==
    IF column = RowId THEN IntToText(row.rowid)
    ELSE Row_try_get(row, column[2], NullText)

\* the indexing self.cells[c] / other.cells[c] of cmp is out of bounds
cmp_panics(row, other, column) ==
    /\ column # RowId
    /\ \/ column[2] >= Len(row.cells)
       \/ column[2] >= Len(other.cells)

cmp(row, other, column) ==
    IF column = RowId THEN IntCmp(row.rowid, other.rowid)
    ELSE TextCmp(row.cells[column[2] + 1].value, other.cells[column[2] + 1].value)

\* header_padding of create_table_view
ViewHeaderPadding == 4

\* the columns create_table_view hands to the TableView, in order
Table_view_columns(t) ==
    LET names == Table_header_names(t)
        null_width == Len(NullText)
    IN  <<[column |-> RowId, title |-> RowidTitle,
           width |-> Max(Table_rowid_width(t), Len(RowidTitle) + ViewHeaderPadding)]>>
        \o [i \in 1..Len(names) |->
              [column |-> ColumnPos(i - 1), title |-> names[i],
               width |-> Max(Max(Table_col_width(t, i - 1), null_width),
                             Len(names[i]) + ViewHeaderPadding)]]

Table_create_table_view(t) == [columns |-> Table_view_columns(t), items |-> t.rows]

\* ------------------------------------------------------------------------
\* Error
\* ------------------------------------------------------------------------

NoError == <<"none">>

Error_from_bad_file(path, why) == <<"FileError", path, why>>

Error_ExitCode(i) == <<"ExitCode", i>>

\* Some(message) is <<message>>, None is <<>>
Error_get_message(e) ==
    IF e[1] = "FileError" THEN <<<<"could not open", e[2], e[3]>>>> ELSE <<>>

\* what print_error adds to the error stream
Error_print_error(e) ==
    IF Error_get_message(e) # <<>>
    THEN <<<<"fatal", Error_get_message(e)[1]>>>>
    ELSE <<>>

\* a plausible slip of exit_code: a file error exits with success
Error_exit_code_zero(e) == IF e[1] = "ExitCode" THEN e[2] ELSE 0

Error_exit_code(e) == IF e[1] = "ExitCode" THEN e[2] ELSE 1

\* ------------------------------------------------------------------------
\* The process: main, Table::from_filepath, the running view
\* ------------------------------------------------------------------------

VARIABLES
    pc,           \* where the process is
    filepath,     \* the positional argument stored by the argument parser
    open_result,  \* what File::open returned: "none" before the call
    err,          \* the Error body() returned, NoError if none
    table,        \* newself of from_filepath, then table of main
    view,         \* the table view main built and its min_size
    ordering,     \* the result of the last cmp the view asked for
    stderr,       \* the lines written to the error stream
    exit_status,  \* the exit code of the process, -1 while it runs
    panic,        \* why the process panicked, "none" if it did not
    line,         \* SpecLine: the line handed to Row::from_line
    parsed        \* SpecLine: the Row it returned, <<>> before the call

vars == <<pc, filepath, open_result, err, table, view, ordering, stderr,
          exit_status, panic, line, parsed>>

procvars == <<pc, filepath, open_result, err, table, view, ordering, stderr,
              exit_status, panic>>

\* the values of "file" on the command line
Paths == {"-", "data.csv"}

\* the causes File::open can fail with
IoErrors == {"NotFound", "PermissionDenied"}

\* the codes ArgumentParser::parse_args fails with (0 after --version / --help)
ArgParseCodes == {0, 2}

\* the value of `table` before from_filepath builds it
NoTable == [header |-> [cells |-> <<>>, rowid |-> -1], rows |-> <<>>, num_cols |-> 0]

\* the value of `view` before main builds it
NoView == [min_size |-> <<0, 0>>, columns |-> <<>>, items |-> <<>>]

\* cell_padding of the call of sum_colwidth2 in main
MainCellPadding == 2

\* rows added to num_rows for the height of min_size
MainExtraRows == 4

Init ==
    /\ pc = "start"
    /\ filepath = ""
    /\ open_result = "none"
    /\ err = NoError
    /\ table = NoTable
    /\ view = NoView
    /\ ordering = "none"
    /\ stderr = <<>>
    /\ exit_status = -1
    /\ panic = "none"
    /\ line = <<>>
    /\ parsed = <<>>

\* ap.parse_args() succeeds and stores the positional argument
ParseArgsOk ==
    /\ pc = "start"
    /\ \E p \in Paths : filepath' = p
    /\ pc' = "open"
    /\ UNCHANGED <<open_result, err, table, view, ordering, stderr, exit_status,
                   panic, line, parsed>>

\* ap.parse_args() fails: body returns Err(Error::ExitCode(x))
ParseArgsErr ==
    /\ pc = "start"
    /\ \E x \in ArgParseCodes : err' = Error_ExitCode(x)
    /\ pc' = "report"
    /\ UNCHANGED <<filepath, open_result, table, view, ordering, stderr,
                   exit_status, panic, line, parsed>>

\* File::open(&filepath) succeeds
OpenOk ==
    /\ pc = "open"
    /\ open_result' = "Ok"
    /\ pc' = "read_header"
    /\ UNCHANGED <<filepath, err, table, view, ordering, stderr, exit_status,
                   panic, line, parsed>>

\* File::open(&filepath) fails: from_filepath returns Err(from_bad_file(..)),
\* which the ? of body returns to main
OpenErr ==
    /\ pc = "open"
    /\ \E why \in IoErrors :
         /\ open_result' = why
         /\ err' = Error_from_bad_file(filepath, why)
    /\ pc' = "report"
    /\ UNCHANGED <<filepath, table, view, ordering, stderr, exit_status, panic,
                   line, parsed>>

\* buf.read_line(&mut header) and the construction of newself; the line keeps
\* its line ending; a first line without one is the whole file
ReadHeader ==
    /\ pc = "read_header"
    /\ \E s \in HeaderLines, nl \in BOOLEAN :
         /\ table' = Table_new(IF nl THEN Append(s, "\n") ELSE s)
         /\ pc' = IF nl THEN "read_lines" ELSE "normalize"
    /\ UNCHANGED <<filepath, open_result, err, view, ordering, stderr,
                   exit_status, panic, line, parsed>>

\* one turn of the loop over buf.lines(): a line of length 0 is skipped
ReadLine ==
    /\ pc = "read_lines"
    /\ Len(table.rows) < MaxRows
    /\ \E ln \in DataLines :
         table' = IF Len(ln) > 0 THEN Table_add_line(table, Row_from_line(ln))
                  ELSE table
    /\ UNCHANGED <<pc, filepath, open_result, err, view, ordering, stderr,
                   exit_status, panic, line, parsed>>

\* buf.lines() is exhausted
EndOfLines ==
    /\ pc = "read_lines"
    /\ pc' = "normalize"
    /\ UNCHANGED <<filepath, open_result, err, table, view, ordering, stderr,
                   exit_status, panic, line, parsed>>

\* read_line(..).expect(..) or ln.unwrap() meets a read error
ReadError ==
    /\ pc \in {"read_header", "read_lines"}
    /\ pc' = "panicked"
    /\ panic' = "read"
    /\ stderr' = Append(stderr, <<"panic", "read">>)
    /\ exit_status' = 101
    /\ UNCHANGED <<filepath, open_result, err, table, view, ordering, line, parsed>>

\* newself.fix_header_names(), then Ok(newself)
FixHeaderNames ==
    /\ pc = "normalize"
    /\ table' = Table_fix_header_names(table)
    /\ IF Table_header_assert(table')
       THEN /\ pc' = "loaded"
            /\ UNCHANGED <<panic, stderr, exit_status>>
       ELSE /\ pc' = "panicked"
            /\ panic' = "assert_eq"
            /\ stderr' = Append(stderr, <<"panic", "assert_eq">>)
            /\ exit_status' = 101
    /\ UNCHANGED <<filepath, open_result, err, view, ordering, line, parsed>>

\* main, from sum_colwidth2 to add_layer: the view is built and sized
CreateView ==
    /\ pc = "loaded"
    /\ view' = [min_size |-> <<Table_sum_colwidth2(table, Len(NullText),
                                                   MainCellPadding,
                                                   2 + ViewHeaderPadding),
                               Len(table.rows) + MainExtraRows>>,
                columns |-> Table_create_table_view(table).columns,
                items |-> Table_create_table_view(table).items]
    /\ pc' = "running"
    /\ UNCHANGED <<filepath, open_result, err, table, ordering, stderr,
                   exit_status, panic, line, parsed>>

\* siv.run(): the view sorts by one of its columns and asks for the order of
\* two different items
Compare ==
    /\ pc = "running"
    /\ \E i \in 1..Len(view.items), j \in 1..Len(view.items),
          k \in 1..Len(view.columns) :
         /\ i # j
         /\ IF cmp_panics(view.items[i], view.items[j], view.columns[k].column)
            THEN /\ pc' = "panicked"
                 /\ panic' = "index"
                 /\ stderr' = Append(stderr, <<"panic", "index">>)
                 /\ exit_status' = 101
                 /\ UNCHANGED ordering
            ELSE /\ ordering' = cmp(view.items[i], view.items[j], view.columns[k].column)
                 /\ UNCHANGED <<pc, panic, stderr, exit_status>>
    /\ UNCHANGED <<filepath, open_result, err, table, view, line, parsed>>

\* siv.run() returns, body returns Ok(0), the process exits
Quit ==
    /\ pc = "running"
    /\ pc' = "exited"
    /\ exit_status' = 0
    /\ UNCHANGED <<filepath, open_result, err, table, view, ordering, stderr,
                   panic, line, parsed>>

\* the Err arm of main: print_error, exit_code, process::exit
ReportError ==
    /\ pc = "report"
    /\ stderr' = stderr \o Error_print_error(err)
    /\ exit_status' = Error_exit_code(err)
    /\ pc' = "exited"
    /\ UNCHANGED <<filepath, open_result, err, table, view, ordering, panic,
                   line, parsed>>

Next ==
    \/ ParseArgsOk
    \/ ParseArgsErr
    \/ OpenOk
    \/ OpenErr
    \/ ReadHeader
    \/ ReadLine
    \/ EndOfLines
    \/ ReadError
    \/ FixHeaderNames
    \/ CreateView
    \/ Compare
    \/ Quit
    \/ ReportError

Spec == Init /\ [][Next]_vars

\* ------------------------------------------------------------------------
\* Row::from_line on its own
\* ------------------------------------------------------------------------

LineInit ==
    /\ line \in Strings(LineAlphabet, MaxLineLen)
    /\ parsed = <<>>
    /\ pc = "start"
    /\ filepath = ""
    /\ open_result = "none"
    /\ err = NoError
    /\ table = NoTable
    /\ view = NoView
    /\ ordering = "none"
    /\ stderr = <<>>
    /\ exit_status = -1
    /\ panic = "none"

FromLine ==
    /\ parsed = <<>>
    /\ parsed' = <<Row_from_line(line)>>
    /\ UNCHANGED <<line, procvars>>

LineNext == FromLine

SpecLine == LineInit /\ [][LineNext]_vars

\* ------------------------------------------------------------------------
\* Properties
\* ------------------------------------------------------------------------

SetMax(S) == CHOOSE x \in S : \A y \in S : y <= x

\* the load of from_filepath has returned Ok(table)
Loaded == pc \in {"loaded", "running"}

\* the lengths of the cells the data rows hold at position c, and 0
CellLengthsAt(c) ==
    {0} \cup {Len(table.rows[i].cells[c + 1].value) :
                i \in {r \in 1..Len(table.rows) : Len(table.rows[r].cells) > c}}

\* the column counts of the header and of every data row
ColumnCounts ==
    {Len(table.header.cells)} \cup {Len(table.rows[i].cells) : i \in 1..Len(table.rows)}

\* C1: for every input the assert_eq! that ends fix_header_names holds, so no
\* load panics in it.
C1_HeaderAssertNeverFails == panic # "assert_eq"

\* C2: once the header and every line of the file have been consumed, num_cols
\* is the maximum of the column count of the header and of every data row; a
\* header followed by no data row gives num_cols = the header's column count.
C2_NumColsIsMaximum ==
    pc \in {"normalize", "loaded", "running"} => table.num_cols = SetMax(ColumnCounts)

\* C3: cmp of two rows on a data column never panics, and its result is the
\* comparison of the texts to_column gives for the two rows, "<NULL>" standing
\* for a missing cell.
C3_CompareNeverPanics ==
    /\ panic # "index"
    /\ pc = "running" =>
         \A i \in 1..Len(view.items), j \in 1..Len(view.items),
            k \in 2..Len(view.columns) :
           ~cmp_panics(view.items[i], view.items[j], view.columns[k].column) =>
             cmp(view.items[i], view.items[j], view.columns[k].column)
               = TextCmp(to_column(view.items[i], view.columns[k].column),
                         to_column(view.items[j], view.columns[k].column))

\* C4: a failed open gives a FileError carrying the requested path and the
\* I/O cause; the view is built only after a load that succeeded; after a
\* failed open the process writes one diagnostic line, builds no view and
\* exits with a non-zero code.
C4_OpenFailureFailsFast ==
    /\ open_result \in IoErrors =>
         /\ err = <<"FileError", filepath, open_result>>
         /\ pc \in {"report", "exited"}
         /\ view = NoView
    /\ err[1] = "FileError" => open_result \in IoErrors
    /\ view # NoView =>
         /\ open_result = "Ok"
         /\ err = NoError
         /\ panic \notin {"read", "assert_eq"}
         /\ Table_header_assert(table)
    /\ (pc = "exited" /\ open_result \in IoErrors) =>
         /\ stderr = <<<<"fatal", <<"could not open", filepath, open_result>>>>>>
         /\ exit_status # 0

C4_Witness == pc = "exited" /\ open_result = "NotFound" /\ filepath = "data.csv"

\* C5: for a loaded table, every column c below num_cols and every
\* min_cell_width m, cell_padding p and header_padding h, col_width2 is at
\* least column_width(c) + p and header length + h, and is the larger of
\* max(column_width(c), m) + p and header length + h.
C5_DisplayWidth ==
    Loaded =>
      \A c \in 0..(table.num_cols - 1), m \in 0..MaxPad, p \in 0..MaxPad, h \in 0..MaxPad :
        LET cw == SetMax(CellLengthsAt(c))
            hl == Len(table.header.cells[c + 1].value)
            d == Table_col_width2(table, c, m, p, h)
        IN  /\ Table_col_width2_in_bounds(table, c)
            /\ Table_col_width(table, c) = cw
            /\ d >= cw + p
            /\ d >= hl + h
            /\ d = SetMax({SetMax({cw, m}) + p, hl + h})

\* a loaded table with a short row, a column wider than its header and a
\* header wider than its column
C5_Witness ==
    /\ pc = "loaded"
    /\ \E i \in 1..Len(table.rows) : Len(table.rows[i].cells) < table.num_cols
    /\ \E c \in 0..(table.num_cols - 1) :
         SetMax(CellLengthsAt(c)) > Len(table.header.cells[c + 1].value)
    /\ \E c \in 0..(table.num_cols - 1) :
         SetMax(CellLengthsAt(c)) < Len(table.header.cells[c + 1].value)

\* C6: rows[i].row_id = i for every index i (0-based), in the table and in the
\* items handed to the view; the header keeps -1; cmp on the row-identity
\* column orders the rows as they were inserted.
C6_RowIdsAreIndexes ==
    /\ \A i \in 1..Len(table.rows) : table.rows[i].rowid = i - 1
    /\ \A i \in 1..Len(view.items) : view.items[i].rowid = i - 1
    /\ table.header.rowid = -1
    /\ \A i \in 1..Len(table.rows), j \in 1..Len(table.rows) :
         /\ cmp(table.rows[i], table.rows[j], RowId) = "Less" <=> i < j
         /\ cmp(table.rows[i], table.rows[j], RowId) = "Equal" <=> i = j
         /\ cmp(table.rows[i], table.rows[j], RowId) = "Greater" <=> i > j

C6_Witness == pc = "running" /\ Len(view.items) >= 2 /\ ordering = "Less"

\* the positions of the delimiters of a line
CommaPositions(s) == {q \in 1..Len(s) : s[q] = ","}

\* the position of the n-th delimiter; 0 and Len(s) + 1 bracket the line
NthComma(s, n) ==
    IF n = 0 THEN 0
    ELSE IF n > Cardinality(CommaPositions(s)) THEN Len(s) + 1
    ELSE CHOOSE q \in CommaPositions(s) :
           Cardinality({r \in CommaPositions(s) : r <= q}) = n

\* the i-th field of a line: what stands between two neighbouring delimiters
Field(s, i) == SubSeq(s, NthComma(s, i - 1) + 1, NthComma(s, i) - 1)

\* c is f without the white space around it
IsTrimOf(c, f) ==
    \E a \in 1..(Len(f) + 1), b \in 0..Len(f) :
      /\ a <= b + 1
      /\ c = SubSeq(f, a, b)
      /\ \A q \in 1..(a - 1) : f[q] \in WhiteSpace
      /\ \A q \in (b + 1)..Len(f) : f[q] \in WhiteSpace
      /\ c # <<>> => (c[1] \notin WhiteSpace /\ c[Len(c)] \notin WhiteSpace)

\* C7: for a line with k delimiters from_line returns k + 1 cells, the i-th
\* being the i-th field without the white space around it (empty for an empty
\* field), and the row id -1.
C7_FromLineCells ==
    parsed # <<>> =>
      LET row == parsed[1]
          k == Cardinality(CommaPositions(line))
      IN  /\ Len(row.cells) = k + 1
          /\ row.rowid = -1
          /\ \A i \in 1..(k + 1) : IsTrimOf(row.cells[i].value, Field(line, i))

\* from_line has run on a line with an empty field between two delimiters and
\* a field with white space around it
C7_Witness ==
    /\ parsed # <<>>
    /\ line = <<" ", "a", ",", ",">>
    /\ Len(parsed[1].cells) = 3

\* C8: fix_header_names leaves no header cell empty: an empty cell at position
\* c and every cell added to reach num_cols hold "col:<c>", a non-empty cell
\* is left as it was; and the file "x,,z\n" loads to the header
\* ["x", "col:1", "z"].
C8_HeaderNormalized ==
    [][pc = "normalize" =>
         LET old == table.header.cells
             new == table'.header.cells
         IN  /\ Len(new) >= Len(old)
             /\ \A i \in 1..Len(new) :
                  /\ new[i].value # <<>>
                  /\ (i <= Len(old) /\ old[i].value # <<>>) => new[i] = old[i]
                  /\ (i > Len(old) \/ old[i].value = <<>>) => new[i].value = ColName(i - 1)
             /\ (old = Row_from_line(Append(ScenarioBHeader, "\n")).cells
                   /\ table.rows = <<>>) =>
                  /\ pc' = "loaded"
                  /\ Table_header_names(table')
                       = <<<<"x">>, <<"c", "o", "l", ":", "1">>, <<"z">>>>]_vars

\* C9: the width main gives to min_size is at least the sum of the widths of
\* the columns create_table_view gives the view, the rowid column included.
C9_ViewportFitsColumns ==
    pc = "running" =>
      view.min_size[1] >= SeqSum([k \in 1..Len(view.columns) |-> view.columns[k].width])

\* C10: from_filepath is never asked to open "-": main reads standard input
\* instead.
C10_DashIsNotOpened == open_result # "none" => filepath # "-"

====
